---- MODULE Spec2Model ----
(***************************************************************************)
(* Multi-venue trade router for a binary (YES/NO) prediction market:       *)
(* scripts/simulate_partial_fill.py (priority router OTC -> AMM -> MINT)   *)
(* and scripts/simulate_router.py (fee hook, vault spread, vault OTC).     *)
(*                                                                         *)
(* Numbers.  The scripts compute with Python floats and ints.  Every float *)
(* quantity (reserves, shares, collateral) is modelled as an exact         *)
(* rational [neg, n, d]; n and d are naturals of arbitrary size, kept as   *)
(* little-endian sequences of limbs (Big), because the 16 halvings of the  *)
(* binary search and the constant-product formula need more than 32 bits.  *)
(* bps values, which the scripts keep as Python ints, are TLA+ integers.   *)
(***************************************************************************)
EXTENDS Integers, Sequences, FiniteSets, TLC

(***************************************************************************)
(* Arbitrary-size naturals                                                 *)
(***************************************************************************)
Base == 100 * 100

RECURSIVE BigOf(_)
BigOf(k) == IF k = 0 THEN << >> ELSE <<k % Base>> \o BigOf(k \div Base)

BigOne == <<1>>

Limb(a, i) == IF i <= Len(a) THEN a[i] ELSE 0

RECURSIVE Strip(_)
Strip(a) ==
    IF a = << >> THEN a
    ELSE IF a[Len(a)] = 0 THEN Strip(SubSeq(a, 1, Len(a) - 1)) ELSE a

RECURSIVE CmpFrom(_, _, _)
CmpFrom(a, b, i) ==
    IF i = 0 THEN 0
    ELSE IF a[i] > b[i] THEN 1
    ELSE IF a[i] < b[i] THEN -1
    ELSE CmpFrom(a, b, i - 1)

BigCmp(a, b) ==
    IF Len(a) # Len(b) THEN (IF Len(a) > Len(b) THEN 1 ELSE -1)
    ELSE CmpFrom(a, b, Len(a))

RECURSIVE AddFrom(_, _, _, _)
AddFrom(a, b, i, c) ==
    IF i > Len(a) /\ i > Len(b) THEN (IF c = 0 THEN << >> ELSE <<c>>)
    ELSE LET s == Limb(a, i) + Limb(b, i) + c
         IN  <<s % Base>> \o AddFrom(a, b, i + 1, s \div Base)

BigAdd(a, b) == AddFrom(a, b, 1, 0)

RECURSIVE SubFrom(_, _, _, _)
SubFrom(a, b, i, br) ==
    IF i > Len(a) THEN << >>
    ELSE LET s == a[i] - Limb(b, i) - br
         IN  <<IF s < 0 THEN s + Base ELSE s>>
                 \o SubFrom(a, b, i + 1, IF s < 0 THEN 1 ELSE 0)

\* a - b for a >= b
BigSub(a, b) == Strip(SubFrom(a, b, 1, 0))

RECURSIVE ColSum(_, _, _, _)
ColSum(a, b, k, i) ==
    IF i > Len(a) \/ i > k THEN 0
    ELSE (IF k + 1 - i <= Len(b) THEN a[i] * b[k + 1 - i] ELSE 0)
             + ColSum(a, b, k, i + 1)

RECURSIVE MulFrom(_, _, _, _)
MulFrom(a, b, k, c) ==
    IF k > Len(a) + Len(b) - 1 THEN BigOf(c)
    ELSE LET s == ColSum(a, b, k, 1) + c
         IN  <<s % Base>> \o MulFrom(a, b, k + 1, s \div Base)

BigMul(a, b) ==
    IF a = << >> \/ b = << >> THEN << >>
    ELSE IF a = BigOne THEN b
    ELSE IF b = BigOne THEN a
    ELSE MulFrom(a, b, 1, 0)

\* quotient (an integer) and remainder of a by b > 0
RECURSIVE BigDivMod(_, _)
BigDivMod(a, b) ==
    IF BigCmp(a, b) < 0 THEN [q |-> 0, r |-> a]
    ELSE LET h == BigDivMod(a, BigAdd(b, b))
         IN  IF BigCmp(h.r, b) >= 0
             THEN [q |-> 2 * h.q + 1, r |-> BigSub(h.r, b)]
             ELSE [q |-> 2 * h.q, r |-> h.r]

\* the value of a Big of at most two limbs
Small(a) == Len(a) <= 2
BigVal(a) == Limb(a, 1) + Base * Limb(a, 2)

RECURSIVE Gcd(_, _)
Gcd(x, y) == IF y = 0 THEN x ELSE Gcd(y, x % y)

(***************************************************************************)
(* Exact rationals: the value is (neg ? -1 : 1) * n / d, d > 0.            *)
(* Values whose n and d both fit two limbs are kept in lowest terms.       *)
(***************************************************************************)
Mk(neg, n, d) ==
    IF n = << >> THEN [neg |-> FALSE, n |-> << >>, d |-> BigOne]
    ELSE IF Small(n) /\ Small(d)
    THEN LET g == Gcd(BigVal(n), BigVal(d))
         IN  [neg |-> neg, n |-> BigOf(BigVal(n) \div g), d |-> BigOf(BigVal(d) \div g)]
    ELSE [neg |-> neg, n |-> n, d |-> d]

\* p / q for integers p and q > 0.  The operations below bind their arguments
\* (x \in {xx}) so that each argument is evaluated once.
RatOf(p, q) == Mk(p < 0, BigOf(IF p < 0 THEN -p ELSE p), BigOf(q))
R(p) == RatOf(p, 1)

RNeg(xx) == CHOOSE r \in {Mk(~x.neg, x.n, x.d) : x \in {xx}} : TRUE

\* the cofactors d / gcd(x.d, y.d) of the two denominators
Cofactor(d, e) ==
    IF d = e THEN BigOne
    ELSE IF Small(d) /\ Small(e) THEN BigOf(BigVal(d) \div Gcd(BigVal(d), BigVal(e)))
    ELSE d

RAdd(xx, yy) ==
    CHOOSE r \in
        {LET cx == Cofactor(x.d, y.d)
             cy == Cofactor(y.d, x.d)
             xn == BigMul(x.n, cy)
             yn == BigMul(y.n, cx)
             d  == BigMul(x.d, cy)
         IN  IF x.neg = y.neg THEN Mk(x.neg, BigAdd(xn, yn), d)
             ELSE IF BigCmp(xn, yn) >= 0 THEN Mk(x.neg, BigSub(xn, yn), d)
             ELSE Mk(y.neg, BigSub(yn, xn), d) : x \in {xx}, y \in {yy}} : TRUE

RSub(x, y) == RAdd(x, RNeg(y))

RMul(xx, yy) ==
    CHOOSE r \in
        {Mk(x.neg # y.neg, BigMul(x.n, y.n), BigMul(x.d, y.d)) : x \in {xx}, y \in {yy}} : TRUE

\* x / y for y # 0
RDiv(xx, yy) ==
    CHOOSE r \in
        {IF x.d = y.d THEN Mk(x.neg # y.neg, x.n, y.n)
         ELSE Mk(x.neg # y.neg, BigMul(x.n, y.d), BigMul(x.d, y.n)) :
             x \in {xx}, y \in {yy}} : TRUE

\* -1, 0, 1 as x < y, x = y, x > y
RCmp(xx, yy) ==
    CHOOSE r \in
        {IF x.neg # y.neg THEN (IF x.neg THEN -1 ELSE 1)
         ELSE LET c == IF x.d = y.d THEN BigCmp(x.n, y.n)
                       ELSE BigCmp(BigMul(x.n, y.d), BigMul(y.n, x.d))
              IN  IF x.neg THEN -c ELSE c : x \in {xx}, y \in {yy}} : TRUE

REq(x, y) == RCmp(x, y) = 0
RLt(x, y) == RCmp(x, y) < 0
RLe(x, y) == RCmp(x, y) <= 0
RGt(x, y) == RCmp(x, y) > 0
RGe(x, y) == RCmp(x, y) >= 0
RZero == R(0)
RIsInt(x) == x.d = BigOne

RMin(xx, yy) == CHOOSE r \in {IF RLe(x, y) THEN x ELSE y : x \in {xx}, y \in {yy}} : TRUE
RMin3(x, y, z) == RMin(RMin(x, y), z)

\* Python int(): truncation toward zero
RTrunc(xx) ==
    CHOOSE r \in
        {LET q == BigDivMod(x.n, x.d).q IN IF x.neg THEN -q ELSE q : x \in {xx}} : TRUE

\* Python math.ceil()
RCeil(xx) ==
    CHOOSE r \in
        {LET h == BigDivMod(x.n, x.d)
         IN  IF x.neg THEN -h.q
             ELSE IF h.r = << >> THEN h.q ELSE h.q + 1 : x \in {xx}} : TRUE

(***************************************************************************)
(* Config (simulate_partial_fill.py)                                       *)
(***************************************************************************)
MAX_PRICE_IMPACT_BPS == 1200
MAX_VAULT_DEPLETION_PCT == 30
BASE_SPREAD_BPS == 100
MIN_ABSOLUTE_SPREAD_BPS == 20
\* range(16) of the binary search
SEARCH_ITERATIONS == 16
\* the sentinel "would drain pool"
DRAIN_IMPACT == 10001
\* default fee_bps of simulate_trade_with_partial_fill
DEFAULT_FEE_BPS == 74

Max(a, b) == IF a >= b THEN a ELSE b
Min(a, b) == IF a <= b THEN a ELSE b
Abs(a) == IF a < 0 THEN -a ELSE a

(***************************************************************************)
(* PoolState                                                               *)
(***************************************************************************)
PoolState(y, n) == [yes_reserve |-> y, no_reserve |-> n]
VaultState(y, n) == [yes_shares |-> y, no_shares |-> n]

total(pool) == RAdd(pool.yes_reserve, pool.no_reserve)

p_yes_bps(pool) ==
    IF REq(total(pool), RZero) THEN 5000
    ELSE RTrunc(RMul(RDiv(pool.no_reserve, total(pool)), R(10000)))

(***************************************************************************)
(* AMM                                                                     *)
(***************************************************************************)
\* A float sum keeps 53 significant bits: a term whose magnitude is at most 2^-54
\* of the other's is below half a unit in its last place and is absorbed.  (Sums of
\* terms closer to each other are taken exactly.)
ABSORBED_BITS == 54
Absorbs(hi, lo) ==
    BigCmp(BigMul(BigMul(lo.n, hi.d),
                  BigMul(BigOf(2^(ABSORBED_BITS \div 2)), BigOf(2^(ABSORBED_BITS \div 2)))),
           BigMul(hi.n, lo.d)) <= 0
\* a term that absorbs the other has the longer quotient of the two
Larger(x, y) == IF Len(x.n) + Len(y.d) >= Len(y.n) + Len(x.d) THEN x ELSE y
Smaller(x, y) == IF Len(x.n) + Len(y.d) >= Len(y.n) + Len(x.d) THEN y ELSE x
FloatSum(xx, yy) ==
    CHOOSE r \in {IF Absorbs(Larger(x, y), Smaller(x, y)) THEN Larger(x, y) ELSE RAdd(x, y) :
                      x \in {xx}, y \in {yy}} : TRUE

calculate_swap_output(amount_in, reserve_in, reserve_out, fee_bps) ==
    IF REq(reserve_in, RZero) \/ REq(reserve_out, RZero) THEN RZero
    ELSE LET amount_in_with_fee == RMul(amount_in, R(10000 - fee_bps))
             numerator == RMul(amount_in_with_fee, reserve_out)
             denominator == FloatSum(RMul(reserve_in, R(10000)), amount_in_with_fee)
         IN  RDiv(numerator, denominator)

reserve_in_of(pool, buy_yes) == IF buy_yes THEN pool.no_reserve ELSE pool.yes_reserve
reserve_out_of(pool, buy_yes) == IF buy_yes THEN pool.yes_reserve ELSE pool.no_reserve

\* the reserves after the swap, as calculate_price_impact computes them
pool_after(pool, buy_yes, collateral_in, fee_bps) ==
    LET swap_out == calculate_swap_output(collateral_in, reserve_in_of(pool, buy_yes),
                                          reserve_out_of(pool, buy_yes), fee_bps)
    IN  IF buy_yes
        THEN PoolState(RSub(pool.yes_reserve, swap_out),
                       FloatSum(pool.no_reserve, collateral_in))
        ELSE PoolState(FloatSum(pool.yes_reserve, collateral_in),
                       RSub(pool.no_reserve, swap_out))

\* mutant: the signed change of the probability, without abs()
calculate_price_impact_signed(pool, buy_yes, collateral_in, fee_bps) ==
    IF RGe(calculate_swap_output(collateral_in, reserve_in_of(pool, buy_yes),
                                 reserve_out_of(pool, buy_yes), fee_bps),
           reserve_out_of(pool, buy_yes))
    THEN DRAIN_IMPACT
    ELSE p_yes_bps(pool_after(pool, buy_yes, collateral_in, fee_bps)) - p_yes_bps(pool)

calculate_price_impact(pool, buy_yes, collateral_in, fee_bps) ==
    LET p_before == p_yes_bps(pool)
        reserve_out == reserve_out_of(pool, buy_yes)
        swap_out == calculate_swap_output(collateral_in, reserve_in_of(pool, buy_yes),
                                          reserve_out, fee_bps)
        after == pool_after(pool, buy_yes, collateral_in, fee_bps)
        total_after == FloatSum(after.yes_reserve, after.no_reserve)
        p_after == RTrunc(RMul(RDiv(after.no_reserve, total_after), R(10000)))
    IN  IF RGe(swap_out, reserve_out) THEN DRAIN_IMPACT
        ELSE Abs(p_after - p_before)

RECURSIVE BinarySearch(_, _, _, _, _, _, _)
BinarySearch(pool, buy_yes, fee_bps, max_impact_bps, lo, hi, iters) ==
    IF iters = 0 THEN lo
    ELSE LET mid == RDiv(RAdd(lo, hi), R(2))
         IN  IF REq(mid, lo) THEN lo
             ELSE IF calculate_price_impact(pool, buy_yes, mid, fee_bps) <= max_impact_bps
             THEN BinarySearch(pool, buy_yes, fee_bps, max_impact_bps, mid, hi, iters - 1)
             ELSE BinarySearch(pool, buy_yes, fee_bps, max_impact_bps, lo, mid, iters - 1)

\* mutant: the search starts without the test max_collateral <= 1
find_max_amm_under_impact_unguarded(pool, buy_yes, max_collateral, fee_bps, max_impact_bps) ==
    IF max_impact_bps = 0 THEN RZero
    ELSE IF calculate_price_impact(pool, buy_yes, max_collateral, fee_bps) <= max_impact_bps
    THEN max_collateral
    ELSE BinarySearch(pool, buy_yes, fee_bps, max_impact_bps, R(1), max_collateral,
                      SEARCH_ITERATIONS)

find_max_amm_under_impact(pool, buy_yes, max_collateral, fee_bps, max_impact_bps) ==
    IF max_impact_bps = 0 THEN RZero
    ELSE IF calculate_price_impact(pool, buy_yes, max_collateral, fee_bps) <= max_impact_bps
    THEN max_collateral
    ELSE IF RLe(max_collateral, R(1)) THEN RZero
    ELSE BinarySearch(pool, buy_yes, fee_bps, max_impact_bps, R(1), max_collateral,
                      SEARCH_ITERATIONS)

simulate_amm_buy(pool, collateral_in, buy_yes, fee_bps) ==
    IF REq(pool.yes_reserve, RZero) \/ REq(pool.no_reserve, RZero) THEN RZero
    ELSE LET reserve_out == reserve_out_of(pool, buy_yes)
             swap_out == calculate_swap_output(collateral_in, reserve_in_of(pool, buy_yes),
                                               reserve_out, fee_bps)
         IN  IF RGe(swap_out, reserve_out) THEN RZero
             ELSE RAdd(collateral_in, swap_out)

(***************************************************************************)
(* Vault OTC (simulate_partial_fill.py)                                    *)
(***************************************************************************)
available_of(vault, buy_yes) == IF buy_yes THEN vault.yes_shares ELSE vault.no_shares

share_price_bps_of(buy_yes, twap_p_yes_bps) ==
    IF buy_yes THEN twap_p_yes_bps ELSE 10000 - twap_p_yes_bps

effective_price_bps_of(buy_yes, twap_p_yes_bps) ==
    LET share_price_bps == share_price_bps_of(buy_yes, twap_p_yes_bps)
        spread_bps == Max((share_price_bps * BASE_SPREAD_BPS) \div 10000,
                          MIN_ABSOLUTE_SPREAD_BPS)
    IN  Min(share_price_bps + spread_bps, 10000)

raw_shares_of(collateral_in, effective_price_bps) ==
    RDiv(RMul(collateral_in, R(10000)), R(effective_price_bps))

max_from_vault_of(available) ==
    RDiv(RMul(available, R(MAX_VAULT_DEPLETION_PCT)), R(100))

\* mutant: the fill forgets the depletion cap and the inventory
simulate_vault_otc_uncapped(vault, collateral_in, buy_yes, twap_p_yes_bps) ==
    LET raw_shares == raw_shares_of(collateral_in,
                                    effective_price_bps_of(buy_yes, twap_p_yes_bps))
    IN  IF REq(available_of(vault, buy_yes), RZero)
        THEN [shares_out |-> RZero, collateral_used |-> RZero]
        ELSE [shares_out |-> raw_shares, collateral_used |-> collateral_in]

\* mutant: a capped fill is charged the floor, not the ceiling, of its price
simulate_vault_otc_floor(vault, collateral_in, buy_yes, twap_p_yes_bps) ==
    LET available == available_of(vault, buy_yes)
        effective_price_bps == effective_price_bps_of(buy_yes, twap_p_yes_bps)
        raw_shares == raw_shares_of(collateral_in, effective_price_bps)
        shares_out == RMin3(raw_shares, max_from_vault_of(available), available)
        collateral_used ==
            IF RLt(shares_out, raw_shares)
            THEN R(RTrunc(RDiv(RMul(shares_out, R(effective_price_bps)), R(10000))))
            ELSE collateral_in
    IN  IF REq(available, RZero)
        THEN [shares_out |-> RZero, collateral_used |-> RZero]
        ELSE [shares_out |-> shares_out, collateral_used |-> collateral_used]

simulate_vault_otc(vault, collateral_in, buy_yes, twap_p_yes_bps) ==
    LET available == available_of(vault, buy_yes)
        effective_price_bps == effective_price_bps_of(buy_yes, twap_p_yes_bps)
        raw_shares == raw_shares_of(collateral_in, effective_price_bps)
        max_from_vault == max_from_vault_of(available)
        shares_out == RMin3(raw_shares, max_from_vault, available)
        collateral_used ==
            IF RLt(shares_out, raw_shares)
            THEN R(RCeil(RDiv(RMul(shares_out, R(effective_price_bps)), R(10000))))
            ELSE collateral_in
    IN  IF REq(available, RZero)
        THEN [shares_out |-> RZero, collateral_used |-> RZero]
        ELSE [shares_out |-> shares_out, collateral_used |-> collateral_used]

(***************************************************************************)
(* simulate_router.py: config, fee hook, vault spread, vault OTC           *)
(***************************************************************************)
MIN_FEE_BPS == 10
MAX_FEE_BPS == 75
BOOTSTRAP_WINDOW == 2 * 24 * 3600
MAX_SKEW_FEE_BPS == 80
SKEW_REF_BPS == 4000
ASYMMETRIC_FEE_BPS == 20
FEE_CAP_BPS == 300
MAX_SPREAD_BPS == 500
BASE_RELATIVE_SPREAD_BPS == 100
MAX_IMBALANCE_BOOST_BPS == 400
MAX_TIME_BOOST_BPS == 200

\* mutant: the bootstrap fee grows from MIN_FEE_BPS instead of decaying from MAX_FEE_BPS
base_fee_growing(elapsed_seconds) ==
    IF elapsed_seconds < BOOTSTRAP_WINDOW
    THEN MIN_FEE_BPS + RTrunc(RMul(R(MAX_FEE_BPS - MIN_FEE_BPS),
                                   RDiv(R(elapsed_seconds), R(BOOTSTRAP_WINDOW))))
    ELSE MIN_FEE_BPS

\* Bootstrap fee (linear decay)
base_fee_of(elapsed_seconds) ==
    IF elapsed_seconds < BOOTSTRAP_WINDOW
    THEN MAX_FEE_BPS - RTrunc(RMul(R(MAX_FEE_BPS - MIN_FEE_BPS),
                                   RDiv(R(elapsed_seconds), R(BOOTSTRAP_WINDOW))))
    ELSE MIN_FEE_BPS

\* mutant: the quadratic skew fee is not held at MAX_SKEW_FEE_BPS beyond SKEW_REF_BPS
skew_fee_unbounded(p_bps) ==
    RTrunc(RMul(RMul(R(MAX_SKEW_FEE_BPS), RDiv(R(Abs(p_bps - 5000)), R(SKEW_REF_BPS))),
                RDiv(R(Abs(p_bps - 5000)), R(SKEW_REF_BPS))))

\* Skew fee (quadratic curve)
skew_fee_of(p_bps) ==
    LET skew == Abs(p_bps - 5000)
        ratio == RDiv(R(skew), R(SKEW_REF_BPS))
    IN  IF skew >= SKEW_REF_BPS THEN MAX_SKEW_FEE_BPS
        ELSE RTrunc(RMul(RMul(R(MAX_SKEW_FEE_BPS), ratio), ratio))

\* Asymmetric fee (linear)
asymmetric_fee_of(p_bps) ==
    RTrunc(RDiv(R(ASYMMETRIC_FEE_BPS * Abs(p_bps - 5000)), R(5000)))

calculate_hook_fee(pl, elapsed_seconds) ==
    Min(base_fee_of(elapsed_seconds) + skew_fee_of(p_yes_bps(pl))
            + asymmetric_fee_of(p_yes_bps(pl)),
        FEE_CAP_BPS)

vault_total(v) == RAdd(v.yes_shares, v.no_shares)

imbalance_bps(v) ==
    IF REq(vault_total(v), RZero) THEN 5000
    ELSE LET larger == IF RGe(v.yes_shares, v.no_shares) THEN v.yes_shares
                       ELSE v.no_shares
         IN  RTrunc(RMul(RDiv(larger, vault_total(v)), R(10000)))

imbalance_boost_of(v, by) ==
    LET yes_scarce == RLt(v.yes_shares, v.no_shares)
        consuming_scarce == (by /\ yes_scarce) \/ (~by /\ ~yes_scarce)
    IN  IF consuming_scarce /\ RGt(vault_total(v), RZero) /\ imbalance_bps(v) > 5000
        THEN RTrunc(RDiv(R(MAX_IMBALANCE_BOOST_BPS * (imbalance_bps(v) - 5000)), R(5000)))
        ELSE 0

time_boost_of(hours_to_close) ==
    IF RLt(hours_to_close, R(24))
    THEN RTrunc(RDiv(RMul(R(MAX_TIME_BOOST_BPS), RSub(R(24), hours_to_close)), R(24)))
    ELSE 0

\* mutant: the sum of the boosts is returned without the cap MAX_SPREAD_BPS
calculate_vault_spread_uncapped(v, by, hours_to_close) ==
    BASE_RELATIVE_SPREAD_BPS + imbalance_boost_of(v, by) + time_boost_of(hours_to_close)

calculate_vault_spread(v, by, hours_to_close) ==
    Min(BASE_RELATIVE_SPREAD_BPS + imbalance_boost_of(v, by) + time_boost_of(hours_to_close),
        MAX_SPREAD_BPS)

router_effective_price_bps_of(v, by, twap_p_yes_bps, hours_to_close) ==
    LET share_price_bps == share_price_bps_of(by, twap_p_yes_bps)
        relative_spread == (share_price_bps * calculate_vault_spread(v, by, hours_to_close))
                               \div 10000
        spread_bps == Max(relative_spread, MIN_ABSOLUTE_SPREAD_BPS)
    IN  Min(share_price_bps + spread_bps, 10000)

\* 30% depletion cap, at least one share
router_max_from_vault_of(available, raw_shares) ==
    IF RLt(max_from_vault_of(available), R(1)) /\ RGt(available, RZero)
           /\ RGt(raw_shares, RZero)
    THEN R(1)
    ELSE max_from_vault_of(available)

router_shares_out_of(available, raw_shares) ==
    RMin3(raw_shares, router_max_from_vault_of(available, raw_shares), available)

router_collateral_used_of(c, effective_price_bps, raw_shares, shares_out) ==
    IF REq(shares_out, raw_shares) THEN c
    ELSE R(RCeil(RDiv(RMul(shares_out, R(effective_price_bps)), R(10000))))

router_fill_of(available, c, effective_price_bps, raw_shares, shares_out) ==
    IF REq(available, RZero)
    THEN [shares_out |-> RZero, collateral_used |-> RZero, filled |-> FALSE]
    ELSE [shares_out |-> shares_out,
          collateral_used |->
              router_collateral_used_of(c, effective_price_bps, raw_shares, shares_out),
          filled |-> RGt(shares_out, RZero)]

\* simulate_vault_otc of simulate_router.py: (shares_out, collateral_used, filled)
router_simulate_vault_otc(v, c, by, twap_p_yes_bps, hours_to_close) ==
    router_fill_of(
        available_of(v, by), c,
        router_effective_price_bps_of(v, by, twap_p_yes_bps, hours_to_close),
        raw_shares_of(c, router_effective_price_bps_of(v, by, twap_p_yes_bps, hours_to_close)),
        router_shares_out_of(
            available_of(v, by),
            raw_shares_of(c, router_effective_price_bps_of(v, by, twap_p_yes_bps,
                                                           hours_to_close))))

(***************************************************************************)
(* Quality-based router (simulate_router.py: simulate_amm_buy,            *)
(* simulate_trade)                                                         *)
(***************************************************************************)
\* simulate_amm_buy of simulate_router.py: (shares_out, price_impact_bps, would_succeed)
router_amm_quote(pool, collateral_in, buy_yes, swap_out) ==
    IF RGe(swap_out, reserve_out_of(pool, buy_yes))
    THEN [shares_out |-> RZero, price_impact |-> 0, would_succeed |-> FALSE]
    ELSE [shares_out |-> RAdd(collateral_in, swap_out),
          price_impact |->
              Abs(p_yes_bps(IF buy_yes
                            THEN PoolState(RSub(pool.yes_reserve, swap_out),
                                           RAdd(pool.no_reserve, collateral_in))
                            ELSE PoolState(RAdd(pool.yes_reserve, collateral_in),
                                           RSub(pool.no_reserve, swap_out)))
                      - p_yes_bps(pool)),
          would_succeed |->
              Abs(p_yes_bps(IF buy_yes
                            THEN PoolState(RSub(pool.yes_reserve, swap_out),
                                           RAdd(pool.no_reserve, collateral_in))
                            ELSE PoolState(RAdd(pool.yes_reserve, collateral_in),
                                           RSub(pool.no_reserve, swap_out)))
                      - p_yes_bps(pool)) <= MAX_PRICE_IMPACT_BPS]

router_simulate_amm_buy(pool, collateral_in, buy_yes, fee_bps) ==
    IF REq(pool.yes_reserve, RZero) \/ REq(pool.no_reserve, RZero)
    THEN [shares_out |-> RZero, price_impact |-> 0, would_succeed |-> FALSE]
    ELSE router_amm_quote(pool, collateral_in, buy_yes,
                          calculate_swap_output(collateral_in, reserve_in_of(pool, buy_yes),
                                                reserve_out_of(pool, buy_yes), fee_bps))

TradeResult(venue, shares_out, c, effective_price_bps, price_impact_bps, fee, reason) ==
    [venue |-> venue, shares_out |-> shares_out, collateral_in |-> c,
     effective_price_bps |-> effective_price_bps, price_impact_bps |-> price_impact_bps,
     fee_bps |-> fee, rejected_reason |-> reason]

\* int(collateral * 10000 / shares) if shares > 0 else 0
price_paid_bps_of(c, shares) ==
    IF RGt(shares, RZero) THEN RTrunc(RDiv(RMul(c, R(10000)), shares)) ELSE 0

\* mutant: every rejection carries the no-liquidity reason
trade_rejected_one_reason(c, fee, amm) ==
    TradeResult("rejected", RZero, c, 0,
                IF RGt(amm.shares_out, RZero) THEN amm.price_impact ELSE 0, fee,
                "No liquidity")

trade_rejected(c, fee, amm) ==
    TradeResult("rejected", RZero, c, 0,
                IF RGt(amm.shares_out, RZero) THEN amm.price_impact ELSE 0, fee,
                IF amm.price_impact > MAX_PRICE_IMPACT_BPS THEN "AMM impact" ELSE "No liquidity")

trade_amm(c, fee, amm) ==
    TradeResult("amm", amm.shares_out, c, price_paid_bps_of(c, amm.shares_out),
                amm.price_impact, fee, "None")

trade_otc(otc) ==
    TradeResult("otc", otc.shares_out, otc.collateral_used,
                price_paid_bps_of(otc.collateral_used, otc.shares_out), 0, 0, "None")

\* the vault fill with the remainder filled by the AMM (total shares are > 0 here)
trade_mult(c, fee, otc, amm2) ==
    TradeResult("mult", RAdd(otc.shares_out, amm2.shares_out), c,
                price_paid_bps_of(c, RAdd(otc.shares_out, amm2.shares_out)),
                amm2.price_impact, fee, "None")

\* lines 285-354: determine best execution
trade_decide(pool, c, buy_yes, fee, amm, otc) ==
    IF ~amm.would_succeed /\ ~otc.filled THEN trade_rejected(c, fee, amm)
    ELSE IF otc.filled /\ amm.would_succeed
    THEN IF RGe(otc.shares_out, amm.shares_out) /\ RLe(otc.collateral_used, c)
         THEN IF RGt(RSub(c, otc.collateral_used), RZero)
                   /\ router_simulate_amm_buy(pool, RSub(c, otc.collateral_used), buy_yes,
                                              fee).would_succeed
              THEN trade_mult(c, fee, otc,
                              router_simulate_amm_buy(pool, RSub(c, otc.collateral_used),
                                                      buy_yes, fee))
              ELSE trade_otc(otc)
         ELSE trade_amm(c, fee, amm)
    ELSE IF otc.filled THEN trade_otc(otc)
    ELSE trade_amm(c, fee, amm)

simulate_trade(pool, vault, c, buy_yes, elapsed_seconds, hours_to_close) ==
    trade_decide(pool, c, buy_yes, calculate_hook_fee(pool, elapsed_seconds),
                 router_simulate_amm_buy(pool, c, buy_yes,
                                         calculate_hook_fee(pool, elapsed_seconds)),
                 router_simulate_vault_otc(vault, c, buy_yes, p_yes_bps(pool),
                                           hours_to_close))

(***************************************************************************)
(* State.  pool and vault are the long-lived snapshots handed to every     *)
(* routing call; the other variables are the locals of one call of         *)
(* simulate_trade_with_partial_fill, and ret is what the last call         *)
(* returned (<< >> while none has).  call and value hold one application   *)
(* of a pure function for the specifications that exercise them alone.    *)
(***************************************************************************)
VARIABLES pool, vault, collateral_in, buy_yes, fee_bps, remaining, safe_amm, result,
          pc, ret, call, value

vars == <<pool, vault, collateral_in, buy_yes, fee_bps, remaining, safe_amm, result,
          pc, ret, call, value>>

\* bounds of the model
MaxReserve == 4
MaxShares == 1
MaxCollateral == 3

Reserves == {R(k) : k \in 0..MaxReserve}
Shares == {R(k) : k \in 0..MaxShares}
PoolSet == {PoolState(y, n) : y \in Reserves, n \in Reserves}
VaultSet == {VaultState(y, n) : y \in Shares, n \in Shares}
\* whole amounts (a non-positive one included), half and a quarter of a unit
CollateralSet == {R(k) : k \in (-1)..MaxCollateral} \cup {RatOf(1, 2), RatOf(1, 4)}
RouterFees == {DEFAULT_FEE_BPS, 10000}

NoCall == [fn |-> "none"]

EmptyResult ==
    [otc_shares |-> RZero, otc_collateral |-> RZero,
     amm_shares |-> RZero, amm_collateral |-> RZero,
     mint_shares |-> RZero, mint_collateral |-> RZero,
     total_shares |-> RZero, remaining |-> RZero, venues |-> << >>]

Init ==
    /\ pool \in PoolSet
    /\ vault \in VaultSet
    /\ collateral_in = RZero
    /\ buy_yes = TRUE
    /\ fee_bps = DEFAULT_FEE_BPS
    /\ remaining = RZero
    /\ safe_amm = RZero
    /\ result = EmptyResult
    /\ pc = "idle"
    /\ ret = << >>
    /\ call = NoCall
    /\ value = << >>

\* simulate_trade_with_partial_fill(pool, vault, c, by, fee): lines 162-175
Call(c, by, fee) ==
    /\ pc = "idle"
    /\ collateral_in' = c
    /\ buy_yes' = by
    /\ fee_bps' = fee
    /\ result' = EmptyResult
    /\ remaining' = c
    /\ safe_amm' = RZero
    /\ ret' = << >>
    /\ pc' = "otc"
    /\ UNCHANGED <<pool, vault, call, value>>

\* mutant: the OTC stage takes the filled shares out of the vault
StageOTC_mutating ==
    /\ pc = "otc"
    /\ LET otc == simulate_vault_otc(vault, remaining, buy_yes, p_yes_bps(pool))
       IN  IF RGt(otc.shares_out, RZero)
           THEN /\ result' = [result EXCEPT !.otc_shares = otc.shares_out,
                                            !.otc_collateral = otc.collateral_used,
                                            !.venues = Append(@, "OTC")]
                /\ remaining' = RSub(remaining, otc.collateral_used)
                /\ vault' = IF buy_yes
                            THEN [vault EXCEPT !.yes_shares = RSub(@, otc.shares_out)]
                            ELSE [vault EXCEPT !.no_shares = RSub(@, otc.shares_out)]
           ELSE UNCHANGED <<result, remaining, vault>>
    /\ pc' = "amm"
    /\ UNCHANGED <<pool, collateral_in, buy_yes, fee_bps, safe_amm, ret, call, value>>

\* mutant: the OTC stage records its fill but leaves the remainder as it was
StageOTC_undeducted ==
    /\ pc = "otc"
    /\ LET otc == simulate_vault_otc(vault, remaining, buy_yes, p_yes_bps(pool))
       IN  IF RGt(otc.shares_out, RZero)
           THEN result' = [result EXCEPT !.otc_shares = otc.shares_out,
                                         !.otc_collateral = otc.collateral_used,
                                         !.venues = Append(@, "OTC")]
           ELSE UNCHANGED result
    /\ pc' = "amm"
    /\ UNCHANGED <<pool, vault, collateral_in, buy_yes, fee_bps, remaining, safe_amm, ret,
                   call, value>>

\* VENUE 1: Vault OTC
StageOTC ==
    /\ pc = "otc"
    /\ LET twap == p_yes_bps(pool)
           otc == simulate_vault_otc(vault, remaining, buy_yes, twap)
       IN  IF RGt(otc.shares_out, RZero)
           THEN /\ result' = [result EXCEPT !.otc_shares = otc.shares_out,
                                            !.otc_collateral = otc.collateral_used,
                                            !.venues = Append(@, "OTC")]
                /\ remaining' = RSub(remaining, otc.collateral_used)
           ELSE UNCHANGED <<result, remaining>>
    /\ pc' = "amm"
    /\ UNCHANGED <<pool, vault, collateral_in, buy_yes, fee_bps, safe_amm, ret, call, value>>

\* mutant: the whole remainder goes to the AMM, without the impact bounder
StageAMMSearch_unbounded ==
    /\ pc = "amm"
    /\ IF RGt(remaining, RZero)
       THEN /\ safe_amm' = remaining
            /\ pc' = "swap"
       ELSE /\ safe_amm' = RZero
            /\ pc' = "mint"
    /\ UNCHANGED <<pool, vault, collateral_in, buy_yes, fee_bps, remaining, result, ret,
                   call, value>>

\* VENUE 2: AMM (partial fill up to impact limit), lines 186-187: the bounder
StageAMMSearch ==
    /\ pc = "amm"
    /\ IF RGt(remaining, RZero)
       THEN /\ safe_amm' = find_max_amm_under_impact(pool, buy_yes, remaining, fee_bps,
                                                     MAX_PRICE_IMPACT_BPS)
            /\ pc' = "swap"
       ELSE /\ safe_amm' = RZero
            /\ pc' = "mint"
    /\ UNCHANGED <<pool, vault, collateral_in, buy_yes, fee_bps, remaining, result, ret,
                   call, value>>

\* mutant: the AMM venue is recorded without the check of the shares bought
StageAMMSwap_unchecked ==
    /\ pc = "swap"
    /\ IF RGt(safe_amm, RZero)
       THEN /\ result' = [result EXCEPT
                            !.amm_shares = simulate_amm_buy(pool, safe_amm, buy_yes, fee_bps),
                            !.amm_collateral = safe_amm,
                            !.venues = Append(@, "AMM")]
            /\ remaining' = RSub(remaining, safe_amm)
       ELSE UNCHANGED <<result, remaining>>
    /\ pc' = "mint"
    /\ UNCHANGED <<pool, vault, collateral_in, buy_yes, fee_bps, safe_amm, ret, call, value>>

\* lines 188-194: the swap of the safe amount
StageAMMSwap ==
    /\ pc = "swap"
    /\ IF RGt(safe_amm, RZero)
            /\ RGt(simulate_amm_buy(pool, safe_amm, buy_yes, fee_bps), RZero)
       THEN /\ result' = [result EXCEPT
                            !.amm_shares = simulate_amm_buy(pool, safe_amm, buy_yes, fee_bps),
                            !.amm_collateral = safe_amm,
                            !.venues = Append(@, "AMM")]
            /\ remaining' = RSub(remaining, safe_amm)
       ELSE UNCHANGED <<result, remaining>>
    /\ pc' = "mint"
    /\ UNCHANGED <<pool, vault, collateral_in, buy_yes, fee_bps, safe_amm, ret, call, value>>

\* VENUE 3: Mint (fallback for remainder)
StageMint ==
    /\ pc = "mint"
    /\ IF RGt(remaining, RZero)
       THEN /\ result' = [result EXCEPT !.mint_shares = remaining,
                                        !.mint_collateral = remaining,
                                        !.venues = Append(@, "MINT")]
            /\ remaining' = RZero
       ELSE UNCHANGED <<result, remaining>>
    /\ pc' = "return"
    /\ UNCHANGED <<pool, vault, collateral_in, buy_yes, fee_bps, safe_amm, ret, call, value>>

\* lines 204-207: the totals, and the return of the result
Return ==
    /\ pc = "return"
    /\ result' = [result EXCEPT
                    !.total_shares = RAdd(RAdd(result.otc_shares, result.amm_shares),
                                          result.mint_shares),
                    !.remaining = remaining]
    /\ ret' = <<result'>>
    /\ pc' = "idle"
    /\ UNCHANGED <<pool, vault, collateral_in, buy_yes, fee_bps, remaining, safe_amm, call, value>>

Next ==
    \/ \E c \in CollateralSet, by \in BOOLEAN, fee \in RouterFees : Call(c, by, fee)
    \/ StageOTC
    \/ StageAMMSearch
    \/ StageAMMSwap
    \/ StageMint
    \/ Return

Spec == Init /\ [][Next]_vars

(***************************************************************************)
(* The pure functions on their own.  Init draws one application (the       *)
(* function and its arguments) into call; the action of that function      *)
(* applies it and leaves what it returns in value.                         *)
(***************************************************************************)
MaxFnShares == 4
TimeStep == 7200

FeeSet == {0, DEFAULT_FEE_BPS, 10000}
CapSet == {0, MAX_PRICE_IMPACT_BPS, 10000}
TwapSet == {0, 3333, 5000, 10000}
HoursSet == {R(0), R(12), R(24), R(168)}
FnVaultSet == {VaultState(R(y), R(n)) : y \in 0..MaxFnShares, n \in 0..MaxFnShares}
AmountSet == {c \in CollateralSet : RGe(c, RZero)}
ElapsedSet ==
    {k * TimeStep : k \in 0..((BOOTSTRAP_WINDOW \div TimeStep) + 1)}
        \cup {1, BOOTSTRAP_WINDOW - 1, BOOTSTRAP_WINDOW}

VaultCalls ==
    {[fn |-> "simulate_vault_otc", vault |-> v, collateral_in |-> c, buy_yes |-> b,
      twap_p_yes_bps |-> tw, hours_to_close |-> R(168)] :
        v \in FnVaultSet, c \in CollateralSet, b \in BOOLEAN, tw \in TwapSet}
    \cup
    {[fn |-> "router_simulate_vault_otc", vault |-> v, collateral_in |-> c, buy_yes |-> b,
      twap_p_yes_bps |-> tw, hours_to_close |-> h] :
        v \in FnVaultSet, c \in CollateralSet, b \in BOOLEAN, tw \in TwapSet, h \in HoursSet}

\* an amount of 2^60, far beyond the precision of a sum with a reserve
HugeAmount == RMul(R(2^30), R(2^30))
AmmAmountSet == AmountSet \cup {HugeAmount}

AmmCalls ==
    {[fn |-> f, pool |-> p, collateral_in |-> c, buy_yes |-> b, fee_bps |-> fee] :
        f \in {"calculate_price_impact", "simulate_amm_buy"},
        p \in PoolSet, c \in AmmAmountSet, b \in BOOLEAN, fee \in FeeSet}

FeeCalls ==
    {[fn |-> "calculate_hook_fee", pool |-> p, elapsed_seconds |-> t] :
        p \in PoolSet, t \in ElapsedSet}

SpreadCalls ==
    {[fn |-> "calculate_vault_spread", vault |-> v, buy_yes |-> b, hours_to_close |-> h] :
        v \in FnVaultSet, b \in BOOLEAN, h \in HoursSet}

ProbabilityCalls == {[fn |-> "p_yes_bps", pool |-> p] : p \in PoolSet}

BounderCalls ==
    {[fn |-> "find_max_amm_under_impact", pool |-> p, buy_yes |-> b, max_collateral |-> c,
      fee_bps |-> fee, max_impact_bps |-> cap] :
        p \in PoolSet, b \in BOOLEAN, c \in AmountSet, fee \in FeeSet, cap \in CapSet}

\* no routing call is in progress
RouterIdle ==
    /\ pool = PoolState(RZero, RZero)
    /\ vault = VaultState(RZero, RZero)
    /\ collateral_in = RZero
    /\ buy_yes = TRUE
    /\ fee_bps = DEFAULT_FEE_BPS
    /\ remaining = RZero
    /\ safe_amm = RZero
    /\ result = EmptyResult
    /\ pc = "idle"
    /\ ret = << >>

routerVars == <<pool, vault, collateral_in, buy_yes, fee_bps, remaining, safe_amm, result,
                pc, ret>>

Apply_simulate_vault_otc ==
    /\ call.fn = "simulate_vault_otc" /\ value = << >>
    /\ value' = <<simulate_vault_otc(call.vault, call.collateral_in, call.buy_yes,
                                     call.twap_p_yes_bps)>>
    /\ UNCHANGED <<call, routerVars>>

Apply_router_simulate_vault_otc ==
    /\ call.fn = "router_simulate_vault_otc" /\ value = << >>
    /\ value' = <<router_simulate_vault_otc(call.vault, call.collateral_in, call.buy_yes,
                                            call.twap_p_yes_bps, call.hours_to_close)>>
    /\ UNCHANGED <<call, routerVars>>

Apply_calculate_price_impact ==
    /\ call.fn = "calculate_price_impact" /\ value = << >>
    /\ value' = <<calculate_price_impact(call.pool, call.buy_yes, call.collateral_in,
                                         call.fee_bps)>>
    /\ UNCHANGED <<call, routerVars>>

Apply_simulate_amm_buy ==
    /\ call.fn = "simulate_amm_buy" /\ value = << >>
    /\ value' = <<simulate_amm_buy(call.pool, call.collateral_in, call.buy_yes,
                                   call.fee_bps)>>
    /\ UNCHANGED <<call, routerVars>>

Apply_calculate_hook_fee ==
    /\ call.fn = "calculate_hook_fee" /\ value = << >>
    /\ value' = <<calculate_hook_fee(call.pool, call.elapsed_seconds)>>
    /\ UNCHANGED <<call, routerVars>>

Apply_calculate_vault_spread ==
    /\ call.fn = "calculate_vault_spread" /\ value = << >>
    /\ value' = <<calculate_vault_spread(call.vault, call.buy_yes, call.hours_to_close)>>
    /\ UNCHANGED <<call, routerVars>>

Apply_p_yes_bps ==
    /\ call.fn = "p_yes_bps" /\ value = << >>
    /\ value' = <<p_yes_bps(call.pool)>>
    /\ UNCHANGED <<call, routerVars>>

Apply_find_max_amm_under_impact ==
    /\ call.fn = "find_max_amm_under_impact" /\ value = << >>
    /\ value' = <<find_max_amm_under_impact(call.pool, call.buy_yes, call.max_collateral,
                                            call.fee_bps, call.max_impact_bps)>>
    /\ UNCHANGED <<call, routerVars>>

InitFn ==
    /\ RouterIdle
    /\ call \in (VaultCalls \cup AmmCalls \cup FeeCalls \cup SpreadCalls
                    \cup ProbabilityCalls)
    /\ value = << >>

NextFn ==
    \/ Apply_simulate_vault_otc
    \/ Apply_router_simulate_vault_otc
    \/ Apply_calculate_price_impact
    \/ Apply_simulate_amm_buy
    \/ Apply_calculate_hook_fee
    \/ Apply_calculate_vault_spread
    \/ Apply_p_yes_bps

SpecFn == InitFn /\ [][NextFn]_vars

InitBounder == RouterIdle /\ call \in BounderCalls /\ value = << >>

NextBounder == Apply_find_max_amm_under_impact

SpecBounder == InitBounder /\ [][NextBounder]_vars

\* simulate_trade on its own
MaxTradeShares == 2

TradeVaultSet == {VaultState(R(y), R(n)) : y \in 0..MaxTradeShares, n \in 0..MaxTradeShares}
TradeElapsedSet == {3600}
TradeHoursSet == {R(12), R(168)}

TradeCalls ==
    {[fn |-> "simulate_trade", pool |-> p, vault |-> v, collateral_in |-> c, buy_yes |-> b,
      elapsed_seconds |-> t, hours_to_close |-> h] :
        p \in PoolSet, v \in TradeVaultSet, c \in CollateralSet, b \in BOOLEAN,
        t \in TradeElapsedSet, h \in TradeHoursSet}

\* the $1000 pool and $1000 vault of run_simulations, with a small, a medium and a
\* large order
SCENARIO_RESERVE == 500
SCENARIO_SHARES == 500

ScenarioCalls ==
    {[fn |-> "simulate_trade", pool |-> PoolState(R(SCENARIO_RESERVE), R(SCENARIO_RESERVE)),
      vault |-> VaultState(R(SCENARIO_SHARES), R(SCENARIO_SHARES)), collateral_in |-> c,
      buy_yes |-> b, elapsed_seconds |-> 3600, hours_to_close |-> R(168)] :
        c \in {R(50), R(80), R(300)}, b \in BOOLEAN}

Apply_simulate_trade ==
    /\ call.fn = "simulate_trade" /\ value = << >>
    /\ value' = <<simulate_trade(call.pool, call.vault, call.collateral_in, call.buy_yes,
                                 call.elapsed_seconds, call.hours_to_close)>>
    /\ UNCHANGED <<call, routerVars>>

InitTrade == RouterIdle /\ call \in (TradeCalls \cup ScenarioCalls) /\ value = << >>

NextTrade == Apply_simulate_trade

SpecTrade == InitTrade /\ [][NextTrade]_vars

Applied(f) == call.fn = f /\ value # << >>
VaultFill == Applied("simulate_vault_otc") \/ Applied("router_simulate_vault_otc")

(***************************************************************************)
(* Properties of the partial-fill router (Spec)                            *)
(***************************************************************************)
Recorded(r) == RAdd(RAdd(r.otc_collateral, r.amm_collateral), r.mint_collateral)
Returned == ret # << >>

\* C1: collateral conservation.  For a request with collateral_in > 0, at every
\* point of the call the collateral recorded for OTC + AMM + MINT plus the running
\* remainder equals collateral_in and the remainder is not negative; the returned
\* result accounts for exactly collateral_in and reports remaining = 0.
C1_Conservation ==
    RGt(collateral_in, RZero) =>
        /\ REq(RAdd(Recorded(result), remaining), collateral_in)
        /\ RGe(remaining, RZero)
        /\ Returned => /\ REq(Recorded(ret[1]), collateral_in)
                       /\ REq(ret[1].remaining, RZero)

\* C2: impact bound.  The amount the bounder hands to the AMM stage, and the
\* amm_collateral the router records, never has a price impact on the unchanged
\* pool above MAX_PRICE_IMPACT_BPS.
C2_ImpactBound ==
    /\ (pc = "swap" /\ RGt(safe_amm, RZero)) =>
           calculate_price_impact(pool, buy_yes, safe_amm, fee_bps) <= MAX_PRICE_IMPACT_BPS
    /\ RGt(result.amm_collateral, RZero) =>
           calculate_price_impact(pool, buy_yes, result.amm_collateral, fee_bps)
               <= MAX_PRICE_IMPACT_BPS

\* C4: input validation.  A request with collateral_in <= 0 never enters the stage
\* machine, and what the call returns is a rejection with reason INVALID_AMOUNT and
\* nothing else (no venue, no shares, no collateral).
C4_InvalidAmountRejected ==
    RLe(collateral_in, RZero) =>
        /\ pc = "idle"
        /\ Returned => /\ DOMAIN ret[1] = {"rejected_reason"}
                       /\ ret[1].rejected_reason = "INVALID_AMOUNT"

VenueOrders ==
    {<< >>, <<"OTC">>, <<"AMM">>, <<"MINT">>, <<"OTC", "AMM">>, <<"OTC", "MINT">>,
     <<"AMM", "MINT">>, <<"OTC", "AMM", "MINT">>}
Used(r, v) == \E i \in 1..Len(r.venues) : r.venues[i] = v

C6_VenueOrdering ==
    /\ result.venues \in VenueOrders
    /\ pc = "otc" => result.venues = << >>
    /\ pc \in {"amm", "swap"} => ~Used(result, "AMM") /\ ~Used(result, "MINT")
    /\ pc = "mint" => ~Used(result, "MINT")
    /\ Used(result, "OTC") <=> RGt(result.otc_shares, RZero)
    /\ Used(result, "AMM") <=> RGt(result.amm_shares, RZero)
    /\ Used(result, "MINT") <=> RGt(result.mint_shares, RZero)
    /\ Returned => ret[1].venues = result.venues

C6_Witness == Returned /\ ret[1].venues = <<"OTC", "AMM", "MINT">>

(***************************************************************************)
(* Properties of the pure functions (SpecFn, SpecBounder)                  *)
(***************************************************************************)
\* the effective price the applied vault fill charges
FillPrice ==
    IF call.fn = "simulate_vault_otc"
    THEN effective_price_bps_of(call.buy_yes, call.twap_p_yes_bps)
    ELSE router_effective_price_bps_of(call.vault, call.buy_yes, call.twap_p_yes_bps,
                                       call.hours_to_close)
FillRaw == RDiv(RMul(call.collateral_in, R(10000)), R(FillPrice))
FillAvailable == available_of(call.vault, call.buy_yes)
\* the exact price of the shares released
FillExactPrice == RDiv(RMul(value[1].shares_out, R(FillPrice)), R(10000))

\* C3: depletion bound.  A vault fill of either script releases at most
\* available * MAX_VAULT_DEPLETION_PCT / 100 shares of the requested side.
C3_DepletionBound ==
    VaultFill =>
        RLe(value[1].shares_out,
            RDiv(RMul(FillAvailable, R(MAX_VAULT_DEPLETION_PCT)), R(100)))

\* C7: no negative reserves or shares.  The reserves computed for a swap that is
\* not reported as draining are both >= 0 and the output reserve stays > 0; a swap
\* with swap_out >= reserve_out is reported as the sentinel impact and as zero
\* shares; a vault fill never releases more than the requested side holds.
SwapOut ==
    calculate_swap_output(call.collateral_in, reserve_in_of(call.pool, call.buy_yes),
                          reserve_out_of(call.pool, call.buy_yes), call.fee_bps)
SwapDrains == RGe(SwapOut, reserve_out_of(call.pool, call.buy_yes))
AfterSwap == pool_after(call.pool, call.buy_yes, call.collateral_in, call.fee_bps)

C7_NoNegative ==
    /\ Applied("calculate_price_impact") =>
           IF value[1] = DRAIN_IMPACT THEN SwapDrains
           ELSE /\ ~SwapDrains
                /\ RGe(AfterSwap.yes_reserve, RZero)
                /\ RGe(AfterSwap.no_reserve, RZero)
                /\ RGt(reserve_out_of(AfterSwap, call.buy_yes), RZero)
    /\ Applied("simulate_amm_buy") =>
           IF RGt(value[1], RZero)
           THEN /\ ~SwapDrains
                /\ RGe(AfterSwap.yes_reserve, RZero)
                /\ RGe(AfterSwap.no_reserve, RZero)
           ELSE SwapDrains \/ REq(call.collateral_in, RZero)
                    \/ REq(call.pool.yes_reserve, RZero) \/ REq(call.pool.no_reserve, RZero)
    /\ VaultFill =>
           /\ RLe(value[1].shares_out, FillAvailable)
           /\ RGe(RSub(FillAvailable, value[1].shares_out), RZero)

C7_Witness ==
    /\ Applied("calculate_price_impact")
    /\ value[1] # DRAIN_IMPACT
    /\ RGt(call.collateral_in, RZero)
    /\ call.fee_bps = 0
    /\ RGt(SwapOut, RZero)

\* C8: vault collateral accounting, for an integer offer.  An unconstrained fill
\* (shares_out = raw shares) uses the whole offer; a constrained one is charged the
\* ceiling of shares_out * effective price / 10000, not less than the exact price
\* of the shares and not more than the offer.
C8_CollateralAccounting ==
    (VaultFill /\ RIsInt(call.collateral_in)
        /\ (RGt(FillAvailable, RZero) \/ RGe(call.collateral_in, RZero))) =>
        IF REq(value[1].shares_out, FillRaw)
        THEN REq(value[1].collateral_used, call.collateral_in)
        ELSE /\ REq(value[1].collateral_used, R(RCeil(FillExactPrice)))
             /\ RGe(value[1].collateral_used, FillExactPrice)
             /\ RLe(value[1].collateral_used, call.collateral_in)

C8_Witness ==
    /\ VaultFill
    /\ RIsInt(call.collateral_in)
    /\ RGt(value[1].shares_out, RZero)
    /\ RLt(value[1].shares_out, FillRaw)
    /\ RGt(value[1].collateral_used, FillExactPrice)
    /\ RLt(value[1].collateral_used, call.collateral_in)

\* C9: bounder range.  0 <= safe <= max_collateral; the result is 0 when the cap is
\* 0; with a cap above 0 the result is max_collateral itself when the impact of the
\* full amount is within the cap.
C9_BounderRange ==
    Applied("find_max_amm_under_impact") =>
        /\ RGe(value[1], RZero)
        /\ RLe(value[1], call.max_collateral)
        /\ call.max_impact_bps = 0 => REq(value[1], RZero)
        /\ (call.max_impact_bps # 0
              /\ calculate_price_impact(call.pool, call.buy_yes, call.max_collateral,
                                        call.fee_bps) <= call.max_impact_bps)
               => REq(value[1], call.max_collateral)

\* the search ran and moved lo: the result lies strictly between 1 and max_collateral
C9_Witness ==
    /\ Applied("find_max_amm_under_impact")
    /\ RGt(value[1], R(1))
    /\ RLt(value[1], call.max_collateral)

\* C10: fee monotonicity in time.  For a fixed pool the fee at an earlier time is
\* at least the fee at any later time up to BOOTSTRAP_WINDOW; the bootstrap term is
\* MAX_FEE_BPS at 0 and MIN_FEE_BPS from BOOTSTRAP_WINDOW on.
C10_FeeMonotone ==
    Applied("calculate_hook_fee") =>
        /\ \A t1 \in ElapsedSet :
               (t1 < call.elapsed_seconds /\ call.elapsed_seconds <= BOOTSTRAP_WINDOW)
                   => calculate_hook_fee(call.pool, t1) >= value[1]
        /\ call.elapsed_seconds = 0 =>
               /\ base_fee_of(call.elapsed_seconds) = MAX_FEE_BPS
               /\ value[1] = Min(MAX_FEE_BPS + skew_fee_of(p_yes_bps(call.pool))
                                     + asymmetric_fee_of(p_yes_bps(call.pool)), FEE_CAP_BPS)
        /\ call.elapsed_seconds >= BOOTSTRAP_WINDOW =>
               /\ base_fee_of(call.elapsed_seconds) = MIN_FEE_BPS
               /\ value[1] = Min(MIN_FEE_BPS + skew_fee_of(p_yes_bps(call.pool))
                                     + asymmetric_fee_of(p_yes_bps(call.pool)), FEE_CAP_BPS)

\* the fee has decayed strictly inside the window
C10_Witness ==
    /\ Applied("calculate_hook_fee")
    /\ call.elapsed_seconds > 0
    /\ call.elapsed_seconds < BOOTSTRAP_WINDOW
    /\ value[1] < calculate_hook_fee(call.pool, 0)
    /\ value[1] > calculate_hook_fee(call.pool, BOOTSTRAP_WINDOW)

\* C11: fee range.  For every pool (an empty one included) and elapsed time >= 0,
\* calculate_hook_fee is an integer in [0, FEE_CAP_BPS], the minimum of
\* FEE_CAP_BPS and the sum of the bootstrap, skew and asymmetric terms; the skew
\* term is MAX_SKEW_FEE_BPS once the skew reaches SKEW_REF_BPS and below it before.
FeeSkew == Abs(p_yes_bps(call.pool) - 5000)

C11_FeeRange ==
    Applied("calculate_hook_fee") =>
        /\ value[1] \in 0..FEE_CAP_BPS
        /\ value[1] = Min(base_fee_of(call.elapsed_seconds)
                              + skew_fee_of(p_yes_bps(call.pool))
                              + asymmetric_fee_of(p_yes_bps(call.pool)), FEE_CAP_BPS)
        /\ base_fee_of(call.elapsed_seconds) \in MIN_FEE_BPS..MAX_FEE_BPS
        /\ asymmetric_fee_of(p_yes_bps(call.pool)) \in 0..ASYMMETRIC_FEE_BPS
        /\ IF FeeSkew >= SKEW_REF_BPS
           THEN skew_fee_of(p_yes_bps(call.pool)) = MAX_SKEW_FEE_BPS
           ELSE skew_fee_of(p_yes_bps(call.pool)) \in 0..(MAX_SKEW_FEE_BPS - 1)

\* the fee of a one-sided pool at time 0: every term at its maximum
C11_Witness ==
    /\ Applied("calculate_hook_fee")
    /\ FeeSkew >= SKEW_REF_BPS
    /\ RGt(total(call.pool), RZero)
    /\ value[1] = MAX_FEE_BPS + MAX_SKEW_FEE_BPS + ASYMMETRIC_FEE_BPS

\* C13: vault spread bounds.  calculate_vault_spread lies in
\* [BASE_RELATIVE_SPREAD_BPS, MAX_SPREAD_BPS]; it is BASE_RELATIVE_SPREAD_BPS when
\* hours_to_close >= 24 and the side bought is not strictly scarcer than the other;
\* the imbalance boost is within MAX_IMBALANCE_BOOST_BPS and the time boost within
\* MAX_TIME_BOOST_BPS.
BoughtSide == available_of(call.vault, call.buy_yes)
OtherSide == available_of(call.vault, ~call.buy_yes)

C13_SpreadBounds ==
    Applied("calculate_vault_spread") =>
        /\ value[1] \in BASE_RELATIVE_SPREAD_BPS..MAX_SPREAD_BPS
        /\ (RGe(call.hours_to_close, R(24)) /\ RGe(BoughtSide, OtherSide))
               => value[1] = BASE_RELATIVE_SPREAD_BPS
        /\ imbalance_boost_of(call.vault, call.buy_yes) \in 0..MAX_IMBALANCE_BOOST_BPS
        /\ RGe(BoughtSide, OtherSide) => imbalance_boost_of(call.vault, call.buy_yes) = 0
        /\ time_boost_of(call.hours_to_close) \in 0..MAX_TIME_BOOST_BPS
        /\ RGe(call.hours_to_close, R(24)) => time_boost_of(call.hours_to_close) = 0

\* both boosts at their maximum: the sum is above MAX_SPREAD_BPS and is capped
C13_Witness ==
    /\ Applied("calculate_vault_spread")
    /\ imbalance_boost_of(call.vault, call.buy_yes) = MAX_IMBALANCE_BOOST_BPS
    /\ time_boost_of(call.hours_to_close) = MAX_TIME_BOOST_BPS
    /\ value[1] = MAX_SPREAD_BPS

\* C15: impact monotonicity.  For a fixed pool with both reserves positive, a fixed
\* direction and a fixed fee, calculate_price_impact is non-decreasing in the
\* amount: the impact of every amount not above the applied one is not above its
\* impact, so an amount below a feasible one is feasible and one above an
\* infeasible one is infeasible.
ImpactOf(a) == calculate_price_impact(call.pool, call.buy_yes, a, call.fee_bps)
CallPoolPositive ==
    RGt(call.pool.yes_reserve, RZero) /\ RGt(call.pool.no_reserve, RZero)

C15_ImpactMonotone ==
    (Applied("calculate_price_impact") /\ CallPoolPositive) =>
        \A a \in AmmAmountSet :
            /\ RLe(a, call.collateral_in) => ImpactOf(a) <= value[1]
            /\ (RLe(a, call.collateral_in) /\ value[1] <= MAX_PRICE_IMPACT_BPS)
                   => ImpactOf(a) <= MAX_PRICE_IMPACT_BPS
            /\ (RGe(a, call.collateral_in) /\ value[1] > MAX_PRICE_IMPACT_BPS)
                   => ImpactOf(a) > MAX_PRICE_IMPACT_BPS

\* a strictly smaller amount with a strictly smaller, non-zero impact
C15_Witness ==
    /\ Applied("calculate_price_impact") /\ CallPoolPositive
    /\ \E a \in AmountSet :
           /\ RLt(a, call.collateral_in)
           /\ ImpactOf(a) > 0
           /\ ImpactOf(a) < value[1]
           /\ ImpactOf(a) <= MAX_PRICE_IMPACT_BPS
           /\ value[1] > MAX_PRICE_IMPACT_BPS

\* C17: implied probability.  For a pool with total > 0, p_yes_bps is
\* no_reserve / total * 10000 rounded to the nearest integer; for total = 0 it is
\* 5000.
Nearest(x) == RTrunc(RAdd(x, RatOf(1, 2)))

C17_ImpliedProbability ==
    Applied("p_yes_bps") =>
        IF REq(total(call.pool), RZero) THEN value[1] = 5000
        ELSE value[1] = Nearest(RMul(RDiv(call.pool.no_reserve, total(call.pool)), R(10000)))

\* C18 as stated: on a pool with both reserves positive, for every collateral >= 0
\* and fee in [0, 10000], the swap output is strictly below the output reserve:
\* calculate_price_impact never returns DRAIN_IMPACT, simulate_amm_buy never
\* returns 0 for a positive amount, and DRAIN_IMPACT is returned only when the
\* output reserve is zero.
C18_DrainNeverFires ==
    /\ (Applied("calculate_price_impact") /\ CallPoolPositive) =>
           /\ RLt(SwapOut, reserve_out_of(call.pool, call.buy_yes))
           /\ value[1] # DRAIN_IMPACT
    /\ (Applied("simulate_amm_buy") /\ CallPoolPositive /\ RGt(call.collateral_in, RZero))
           => RGt(value[1], RZero)
    /\ (Applied("calculate_price_impact") /\ value[1] = DRAIN_IMPACT)
           => REq(reserve_out_of(call.pool, call.buy_yes), RZero)

(***************************************************************************)
(* Further properties of the partial-fill router (Spec)                    *)
(***************************************************************************)
\* the OTC terms of the call that has returned
OrderAvailable == available_of(vault, buy_yes)
OrderRaw == raw_shares_of(collateral_in, effective_price_bps_of(buy_yes, p_yes_bps(pool)))
OrderCap == RDiv(RMul(OrderAvailable, R(MAX_VAULT_DEPLETION_PCT)), R(100))

\* C12: a small order fills entirely from OTC.  When the requested side of the
\* vault is not empty and the raw shares of the whole (positive) order are within
\* the depletion cap, the result has venues = [OTC], otc_collateral = collateral_in
\* and nothing from the AMM or the mint; when the requested side is empty the OTC
\* stage contributes nothing.
C12_SmallOrderOTC ==
    Returned =>
        /\ (RGt(collateral_in, RZero) /\ RGt(OrderAvailable, RZero)
                /\ RLe(OrderRaw, OrderCap)) =>
               /\ ret[1].venues = <<"OTC">>
               /\ REq(ret[1].otc_collateral, collateral_in)
               /\ REq(ret[1].otc_shares, OrderRaw)
               /\ REq(ret[1].amm_shares, RZero) /\ REq(ret[1].amm_collateral, RZero)
               /\ REq(ret[1].mint_shares, RZero) /\ REq(ret[1].mint_collateral, RZero)
        /\ REq(OrderAvailable, RZero) =>
               /\ REq(ret[1].otc_shares, RZero)
               /\ REq(ret[1].otc_collateral, RZero)
               /\ ~Used(ret[1], "OTC")

C12_Witness ==
    /\ Returned
    /\ RGt(collateral_in, RZero)
    /\ RGt(OrderAvailable, RZero)
    /\ RLe(OrderRaw, OrderCap)
    /\ ret[1].venues = <<"OTC">>
    /\ REq(ret[1].otc_collateral, collateral_in)

\* C14: three-venue fill.  When the OTC fill is capped, leaves a remainder > 1, and
\* the impact of the whole remainder on a pool with both reserves positive is above
\* MAX_PRICE_IMPACT_BPS, the result has venues = [OTC, AMM, MINT] with
\* 0 < amm_collateral < remainder, amm_shares > 0, the rest minted at par, and
\* total_shares the sum of the three.
OrderRemainder == RSub(collateral_in, ret[1].otc_collateral)
OrderCapped == RGt(ret[1].otc_shares, RZero) /\ RLt(ret[1].otc_shares, OrderRaw)
PoolPositive == RGt(pool.yes_reserve, RZero) /\ RGt(pool.no_reserve, RZero)

C14_ThreeVenueFill ==
    (/\ Returned
     /\ OrderCapped
     /\ RGt(OrderRemainder, R(1))
     /\ PoolPositive
     /\ calculate_price_impact(pool, buy_yes, OrderRemainder, fee_bps) > MAX_PRICE_IMPACT_BPS)
        => /\ ret[1].venues = <<"OTC", "AMM", "MINT">>
           /\ RGt(ret[1].amm_collateral, RZero)
           /\ RLt(ret[1].amm_collateral, OrderRemainder)
           /\ RGt(ret[1].amm_shares, RZero)
           /\ REq(ret[1].mint_shares, ret[1].mint_collateral)
           /\ REq(ret[1].mint_collateral, RSub(OrderRemainder, ret[1].amm_collateral))
           /\ RGt(ret[1].mint_collateral, RZero)
           /\ REq(ret[1].total_shares,
                  RAdd(RAdd(ret[1].otc_shares, ret[1].amm_shares), ret[1].mint_shares))

C14_Witness ==
    /\ Returned
    /\ OrderCapped
    /\ RGt(OrderRemainder, R(1))
    /\ PoolPositive
    /\ calculate_price_impact(pool, buy_yes, OrderRemainder, fee_bps) > MAX_PRICE_IMPACT_BPS
    /\ ret[1].venues = <<"OTC", "AMM", "MINT">>
    /\ RGt(ret[1].amm_collateral, R(1))

(***************************************************************************)
(* Properties of the quality-based router (SpecTrade)                      *)
(***************************************************************************)
TradeFee == calculate_hook_fee(call.pool, call.elapsed_seconds)
\* the AMM can fill: both reserves are non-zero and the impact is within the cap
AmmCanFill ==
    /\ ~REq(call.pool.yes_reserve, RZero) /\ ~REq(call.pool.no_reserve, RZero)
    /\ calculate_price_impact(call.pool, call.buy_yes, call.collateral_in, TradeFee)
           <= MAX_PRICE_IMPACT_BPS
\* the impact the AMM quote computed is above the cap
AmmImpactExceeded ==
    router_simulate_amm_buy(call.pool, call.collateral_in, call.buy_yes, TradeFee).price_impact
        > MAX_PRICE_IMPACT_BPS
OtcCanFill ==
    RGt(router_simulate_vault_otc(call.vault, call.collateral_in, call.buy_yes,
                                  p_yes_bps(call.pool), call.hours_to_close).shares_out,
        RZero)

\* C16: rejection in simulate_trade.  The result is 'rejected' exactly when neither
\* the AMM nor the vault OTC can fill; a rejected result has shares_out = 0 and the
\* price-impact reason exactly when the AMM's computed impact is above
\* MAX_PRICE_IMPACT_BPS, the no-liquidity reason otherwise; other results carry
\* no reason.
C16_Rejection ==
    Applied("simulate_trade") =>
        /\ (value[1].venue = "rejected") <=> (~AmmCanFill /\ ~OtcCanFill)
        /\ value[1].venue = "rejected" =>
               /\ REq(value[1].shares_out, RZero)
               /\ value[1].rejected_reason \in {"AMM impact", "No liquidity"}
               /\ (value[1].rejected_reason = "AMM impact") <=> AmmImpactExceeded
        /\ value[1].venue # "rejected" => value[1].rejected_reason = "None"

\* a rejection for price impact on a pool that has liquidity
C16_Witness ==
    /\ Applied("simulate_trade")
    /\ value[1].venue = "rejected"
    /\ value[1].rejected_reason = "AMM impact"
    /\ ~OtcCanFill

\* the vault quote simulate_trade obtains for the whole request
OtcQuote ==
    router_simulate_vault_otc(call.vault, call.collateral_in, call.buy_yes,
                              p_yes_bps(call.pool), call.hours_to_close)

\* C19: accounting of a non-rejected result of simulate_trade.  A result with venue
\* 'amm' or 'mult' reports collateral_in equal to the whole requested collateral and
\* a price_impact_bps of at most MAX_PRICE_IMPACT_BPS; a result with venue 'otc'
\* reports the vault's collateral used, which is at most the request.
C19_TradeAccounting ==
    Applied("simulate_trade") =>
        /\ value[1].venue \in {"amm", "mult"} =>
               /\ REq(value[1].collateral_in, call.collateral_in)
               /\ value[1].price_impact_bps <= MAX_PRICE_IMPACT_BPS
        /\ value[1].venue = "otc" =>
               /\ REq(value[1].collateral_in, OtcQuote.collateral_used)
               /\ RLe(value[1].collateral_in, call.collateral_in)
        /\ value[1].venue \in {"amm", "mult", "otc", "rejected"}
====
